---- MODULE Spec2Model ----
(***************************************************************************)
(* A model of LTspice_opt.py: the E-series quantizer round63, the startup  *)
(* binding resolution and netlist rewriting of main / optLTspice, and the  *)
(* file-hash synchronisation with the external simulator in runSim and     *)
(* optLTspice.                                                             *)
(*                                                                         *)
(* Strings that the program inspects character by character (designators,  *)
(* value tokens, netlist lines) are sequences of one-character strings.    *)
(* Floating-point values are modelled exactly: the quantizer works on      *)
(* integers >= 1000, for which every value of the extended series is an    *)
(* integer.                                                                *)
(***************************************************************************)
EXTENDS Integers, Sequences, FiniteSets, TLC

VARIABLES
    qSer,       \* round63: argument ser
    qRnd,       \* round63: argument rnd (after the default and lower())
    qX,         \* round63: argument X of the latest call
    qY,         \* round63: value returned by the latest call
    qCrossed    \* history: the latest call and the call before it had valid
                \* inputs, the earlier one in a lower decade than the later

VARIABLES
    netPc,      \* main: where the netlist handling stands
    simControlOPtInstNames, \* main: the requested tunable instance names
    netlist,    \* main: the tokenized netlist held in memory
    netlistRead,\* history: netlist as it was read at startup
    netFile,    \* the netlist file on disk, a sequence of lines
    OptLine,    \* main: netlist line index (0-based) of binding k
    UB,         \* main: upper bound of binding k
    LB,         \* main: lower bound of binding k
    nomParams,  \* main: nominal value of binding k
    optParams,  \* optLTspice: the parameter vector of the latest evaluation,
                \* in multiples of ln 2; empty before
    XD          \* main: the vector least_squares returned (passCellDict['XD']),
                \* in multiples of ln 2; empty before

VARIABLES
    iterationCount  \* the global evaluation counter

VARIABLES
    schem,      \* update_schematic: the lines read from the schematic file
    new_schem   \* update_schematic: the lines written to the _opt schematic

VARIABLES
    stage,      \* which simulation main is at: init, opt, post, quant
    pc,         \* the step main (or the function it is in) takes next
    files,      \* the result artifacts on disk, by name
    md5,        \* runSim / optLTspice: the hash taken before the invocation
    md5_post,   \* runSim / optLTspice: the hash taken by the poll loop
    status,     \* runSim / optLTspice: what subprocess.call returned
    sims,       \* the external simulator: one process per invocation
    hashSeen,   \* history: the poll loop of the latest invocation has read
                \* a hash that differs from md5
    matchMode,  \* simControl: 1 amplitude, 2 phase, 3 both
    numFreqs,   \* main: len(freqx) of the initial simulation, 0 before it
    targetLen,  \* len(target), set by setTarget
    errWeightsLen,  \* len(errWeights), set by setTarget
    traceLen,   \* optLTspice: the length of the traces it read last, -1 if
                \* none
    retLen,     \* the length of the residual returned by the latest
                \* optLTspice call, -1 if it returned none
    genStatus   \* main: status of the latest netlist generation call

quantVars == <<qSer, qRnd, qX, qY, qCrossed>>

netVars == <<netPc, simControlOPtInstNames, netlist, netlistRead, netFile,
             OptLine, UB, LB, nomParams, optParams, XD>>

runVars == <<stage, pc, files, md5, md5_post, status, sims, hashSeen,
             matchMode, numFreqs, targetLen, errWeightsLen, traceLen, retLen,
             genStatus>>

schemVars == <<schem, new_schem>>

vars == <<quantVars, netVars, iterationCount, runVars, schemVars>>

(***************************************************************************)
(* Generic helpers                                                         *)
(***************************************************************************)
Range(s) == {s[i] : i \in 1..Len(s)}

RECURSIVE Pow10(_)
Pow10(e) == IF e <= 0 THEN 1 ELSE 10 * Pow10(e - 1)

Abs(v) == IF v < 0 THEN -v ELSE v

SetMin(S) == CHOOSE v \in S : \A w \in S : v <= w

SetMax(S) == CHOOSE v \in S : \A w \in S : v >= w

(***************************************************************************)
(* round63: the preferred-number tables                                    *)
(***************************************************************************)
SeriesNames == {"E3", "E6", "E12", "E24", "E48", "E96", "E192"}

Policies == {"harmonic", "arithmetic", "up", "down"}

E3 == <<100, 220, 470>>

E6 == <<100, 150, 220, 330, 470, 680>>

E12 == <<100, 120, 150, 180, 220, 270, 330, 390, 470, 560, 680, 820>>

E24 == <<100, 110, 120, 130, 150, 160, 180, 200, 220, 240, 270, 300,
         330, 360, 390, 430, 470, 510, 560, 620, 680, 750, 820, 910>>

E48 == <<100, 105, 110, 115, 121, 127, 133, 140, 147, 154, 162, 169,
         178, 187, 196, 205, 215, 226, 237, 249, 261, 274, 287, 301,
         316, 332, 348, 365, 383, 402, 422, 442, 464, 487, 511, 536,
         562, 590, 619, 649, 681, 715, 750, 787, 825, 866, 909, 953>>

E96 == <<100, 102, 105, 107, 110, 113, 115, 118, 121, 124, 127, 130,
         133, 137, 140, 143, 147, 150, 154, 158, 162, 165, 169, 174,
         178, 182, 187, 191, 196, 200, 205, 210, 215, 221, 226, 232,
         237, 243, 249, 255, 261, 267, 274, 280, 287, 294, 301, 309,
         316, 324, 332, 340, 348, 357, 365, 374, 383, 392, 402, 412,
         422, 432, 442, 453, 464, 475, 487, 499, 511, 523, 536, 549,
         562, 576, 590, 604, 619, 634, 649, 665, 681, 698, 715, 732,
         750, 768, 787, 806, 825, 845, 866, 887, 909, 931, 953, 976>>

E192 == <<100, 101, 102, 104, 105, 106, 107, 109, 110, 111, 113, 114,
          115, 117, 118, 120, 121, 123, 124, 126, 127, 129, 130, 132,
          133, 135, 137, 138, 140, 142, 143, 145, 147, 149, 150, 152,
          154, 156, 158, 160, 162, 164, 165, 167, 169, 172, 174, 176,
          178, 180, 182, 184, 187, 189, 191, 193, 196, 198, 200, 203,
          205, 208, 210, 213, 215, 218, 221, 223, 226, 229, 232, 234,
          237, 240, 243, 246, 249, 252, 255, 258, 261, 264, 267, 271,
          274, 277, 280, 284, 287, 291, 294, 298, 301, 305, 309, 312,
          316, 320, 324, 328, 332, 336, 340, 344, 348, 352, 357, 361,
          365, 370, 374, 379, 383, 388, 392, 397, 402, 407, 412, 417,
          422, 427, 432, 437, 442, 448, 453, 459, 464, 470, 475, 481,
          487, 493, 499, 505, 511, 517, 523, 530, 536, 542, 549, 556,
          562, 569, 576, 583, 590, 597, 604, 612, 619, 626, 634, 642,
          649, 657, 665, 673, 681, 690, 698, 706, 715, 723, 732, 741,
          750, 759, 768, 777, 787, 796, 806, 816, 825, 835, 845, 856,
          866, 876, 887, 898, 909, 920, 931, 942, 953, 965, 976, 988>>

E_SERIES(ser) ==
    CASE ser = "E3" -> E3
      [] ser = "E6" -> E6
      [] ser = "E12" -> E12
      [] ser = "E24" -> E24
      [] ser = "E48" -> E48
      [] ser = "E96" -> E96
      [] ser = "E192" -> E192

(***************************************************************************)
(* round63: the algorithm                                                  *)
(***************************************************************************)
\* The value standing for numpy's nan in a returned array.
NaN == -1

\* idr = np.isfinite(pwr) & np.isreal(pwr), pwr = np.log10(X): log10 of zero
\* is -inf and log10 of a negative number is nan.
IsValid(x) == x > 0

\* np.floor(np.log10(x)) for a positive integer x
RECURSIVE FloorLog10(_)
FloorLog10(x) == IF x < 10 THEN 0 ELSE 1 + FloorLog10(x \div 10)

\* np.ceil(np.log10(x)) for a positive integer x
CeilLog10(x) ==
    IF x = Pow10(FloorLog10(x)) THEN FloorLog10(x) ELSE FloorLog10(x) + 1

\* np.arange(lo, hi): lo, lo+1, ..., hi-1
arange(lo, hi) == [j \in 1..(IF hi > lo THEN hi - lo ELSE 0) |-> lo + j - 1]

\* omn = floor(min(pwr[idr])), omx = ceil(max(pwr[idr]))
Omn(X) == SetMin({FloorLog10(X[i]) : i \in {k \in 1..Len(X) : IsValid(X[k])}})

Omx(X) == SetMax({CeilLog10(X[i]) : i \in {k \in 1..Len(X) : IsValid(X[k])}})

\* A mutant of DecadeExponents: the decade above the largest input is dropped.
DecadeExponentsNoUpperMargin(omn, omx) == arange(omn - 3, omx - 2)

\* The exponents of temp = 10.0 ** np.arange(omn - 3, omx - 1)
DecadeExponents(omn, omx) == arange(omn - 3, omx - 1)

\* A mutant of Flatten: row-major (numpy's default order) instead of 'F'.
FlattenRowMajor(ns, exps) ==
    [k \in 1..(Len(ns) * Len(exps)) |->
        ns[((k - 1) \div Len(exps)) + 1] * Pow10(exps[((k - 1) % Len(exps)) + 1])]

\* pns = (ns.reshape(-1,1) * temp).flatten(order='F'): column by column, that
\* is decade by decade, each decade holding the whole table.
Flatten(ns, exps) ==
    [k \in 1..(Len(ns) * Len(exps)) |->
        ns[((k - 1) % Len(ns)) + 1] * Pow10(exps[((k - 1) \div Len(ns)) + 1])]

\* The extended series built by a call with input X and table ser.
Pns(X, ser) == Flatten(E_SERIES(ser), DecadeExponents(Omn(X), Omx(X)))

\* A mutant of EdgLeq: the arithmetic policy uses the harmonic mean.
EdgLeqHarmonicOnly(rnd, a, b, x) ==
    CASE rnd \in {"harmonic", "arithmetic"} ->
            IF x <= a THEN FALSE
            ELSE IF x >= b THEN TRUE
            ELSE (x - a) * (a + b) >= a * (b - a)
      [] rnd = "up" -> a <= x
      [] rnd = "down" -> b <= x

\* edg[i] <= x, where edg[i] is the bin edge between the consecutive values
\* a = pns[i] and b = pns[i+1] (a < b):
\*   harmonic   edg = 2ab/(a+b)    arithmetic  edg = (a+b)/2
\*   up         edg = a            down        edg = b
\* The harmonic mean lies strictly between a and b, and inside that interval
\* 2ab/(a+b) <= x is (x-a)(a+b) >= a(b-a).
EdgLeq(rnd, a, b, x) ==
    CASE rnd = "harmonic" ->
            IF x <= a THEN FALSE
            ELSE IF x >= b THEN TRUE
            ELSE (x - a) * (a + b) >= a * (b - a)
      [] rnd = "arithmetic" -> a + b <= 2 * x
      [] rnd = "up" -> a <= x
      [] rnd = "down" -> b <= x

\* np.digitize(x, edg) for increasing edges: the number of edges <= x
digitize(x, pns, rnd) ==
    Cardinality({i \in 1..(Len(pns) - 1) : EdgLeq(rnd, pns[i], pns[i + 1], x)})

\* idx = np.digitize(X[idr], edg); idx[idx == 0] = 1, for one valid element
BinIndex(x, pns, rnd) ==
    LET idx == digitize(x, pns, rnd) IN IF idx = 0 THEN 1 ELSE idx

\* idx for X[idr]: one bin index per valid element of X.
BinIndices(X, pns, rnd) ==
    LET valid == SelectSeq(X, IsValid)
    IN [i \in 1..Len(valid) |-> BinIndex(valid[i], pns, rnd)]

\* The idx array of a call.
round63idx(X, ser, rnd) == BinIndices(X, Pns(X, ser), rnd)

\* round63(X, ser, rnd) for a supported series and policy.  idx is an index of
\* the 0-based numpy array pns.
round63(X, ser, rnd) ==
    IF \A i \in 1..Len(X) : ~IsValid(X[i])
    THEN [i \in 1..Len(X) |-> NaN]
    ELSE LET pns == Pns(X, ser)
             idx == BinIndices(X, pns, rnd)
         IN [i \in 1..Len(idx) |-> pns[idx[i] + 1]]

(***************************************************************************)
(* The parts of the state a specification does not use keep these values.  *)
(***************************************************************************)
NetIdle ==
    /\ netPc = "idle"
    /\ simControlOPtInstNames = <<>>
    /\ netlist = <<>>
    /\ netlistRead = <<>>
    /\ netFile = <<>>
    /\ OptLine = <<>>
    /\ UB = <<>>
    /\ LB = <<>>
    /\ nomParams = <<>>
    /\ optParams = <<>>
    /\ XD = <<>>

RunIdle ==
    /\ stage = "idle"
    /\ pc = "idle"
    /\ files = <<>>
    /\ md5 = <<>>
    /\ md5_post = <<>>
    /\ status = 0
    /\ sims = <<>>
    /\ hashSeen = FALSE
    /\ matchMode = 1
    /\ numFreqs = 0
    /\ targetLen = 0
    /\ errWeightsLen = 0
    /\ traceLen = -1
    /\ retLen = -1
    /\ genStatus = 0

SchemIdle ==
    /\ schem = <<>>
    /\ new_schem = <<>>

QuantIdle ==
    /\ qSer = "E96"
    /\ qRnd = "arithmetic"
    /\ qX = <<>>
    /\ qY = <<>>
    /\ qCrossed = FALSE

(***************************************************************************)
(* round63 as a state machine: the series and the policy are fixed for a   *)
(* behaviour, every step is one call.                                      *)
(***************************************************************************)
\* Bounds of the input grids.
NumXA == 14

NumXB == 24

\* Input values: a grid around 1500 and a grid across the decade boundary
\* 10000.  Every series has members on both grids taken together.
XVals == {1470 + 5 * i : i \in 0..NumXA} \cup {9880 + 10 * i : i \in 0..NumXB}

\* Input arrays with elements whose log10 is not finite (zero) or not a number
\* (a negative value, nan), alone and next to a valid element.
QInvalidInputs == {<<0>>, <<-1>>, <<0, -1>>, <<0, 1500>>, <<1500, -1>>}

\* Input arrays of a call: one valid element, or an array with invalid
\* elements.
QInputs == {<<x>> : x \in XVals} \cup QInvalidInputs

InitQuant ==
    /\ qSer \in SeriesNames
    /\ qRnd \in Policies
    /\ qX = <<>>
    /\ qY = <<>>
    /\ qCrossed = FALSE
    /\ NetIdle
    /\ iterationCount = 0
    /\ RunIdle
    /\ SchemIdle

Round63Call ==
    /\ \E X \in QInputs :
        /\ qX' = X
        /\ qY' = round63(X, qSer, qRnd)
        /\ qCrossed' = /\ Len(qX) = 1 /\ IsValid(qX[1])
                       /\ Len(X) = 1 /\ IsValid(X[1])
                       /\ FloorLog10(qX[1]) < FloorLog10(X[1])
    /\ UNCHANGED <<qSer, qRnd>>
    /\ UNCHANGED <<netVars, iterationCount, runVars, schemVars>>

NextQuant == Round63Call

SpecQuant == InitQuant /\ [][NextQuant]_vars

\* The latest call had exactly one element and it was valid.
QCalled == Len(qX) = 1 /\ IsValid(qX[1])

\* x is a member of the extended series built for a call with input x.
OnSeries(x, ser) == x \in Range(Pns(<<x>>, ser))

(***************************************************************************)
(* Claims about round63                                                    *)
(***************************************************************************)
\* C7 (as stated): for every series and every bin-edge policy, round63 of a
\* value that is already a member of the extended series returns that value.
C7_Idempotent ==
    (QCalled /\ OnSeries(qX[1], qSer)) => qY = qX

\* What holds instead: harmonic, arithmetic and down return an on-series
\* value unchanged, up returns the next value of the extended series.
C7_IdempotentButUp ==
    (QCalled /\ OnSeries(qX[1], qSer)) =>
        IF qRnd = "up"
        THEN qY[1] = SetMin({v \in Range(Pns(qX, qSer)) : v > qX[1]})
        ELSE qY = qX

\* C8 (as stated): with the arithmetic policy the output is an extended-series
\* value at minimal distance from the input, and 1530 with E96 gives 1530.
C8_NearestAnd1530 ==
    (QCalled /\ qRnd = "arithmetic") =>
        /\ Len(qY) = 1
        /\ qY[1] \in Range(Pns(qX, qSer))
        /\ \A v \in Range(Pns(qX, qSer)) : Abs(qY[1] - qX[1]) <= Abs(v - qX[1])
        /\ (qX[1] = 1530 /\ qSer = "E96") => qY[1] = 1530

\* C8 (amended): with the arithmetic policy the output is an extended-series
\* value at minimal distance from the input; 1530 is not an E96 value, and
\* 1530 with E96 gives 1540.
C8_Nearest ==
    (QCalled /\ qRnd = "arithmetic") =>
        /\ Len(qY) = 1
        /\ qY[1] \in Range(Pns(qX, qSer))
        /\ \A v \in Range(Pns(qX, qSer)) : Abs(qY[1] - qX[1]) <= Abs(v - qX[1])
        /\ (qX[1] = 1530 /\ qSer = "E96") => (qY[1] = 1540 /\ ~OnSeries(1530, "E96"))

C8_Witness ==
    qX = <<1530>> /\ qSer = "E96" /\ qRnd = "arithmetic" /\ qY = <<1540>>

\* C11 (as stated): a zero, negative or nan input element yields nan at its
\* own position, the output has one entry per input element, and the valid
\* elements of the same call are quantized as they are alone.
C11_InvalidYieldNaNInPlace ==
    Len(qX) >= 1 =>
        /\ Len(qY) = Len(qX)
        /\ \A i \in 1..Len(qX) :
            IF IsValid(qX[i])
            THEN qY[i] = round63(<<qX[i]>>, qSer, qRnd)[1]
            ELSE qY[i] = NaN

\* What holds instead: a call with no valid element returns one nan per
\* element; a call with a valid element returns the quantized valid elements
\* only, in their order.
C11_InvalidDropped ==
    Len(qX) >= 1 =>
        LET valid == SelectSeq(qX, IsValid)
        IN IF Len(valid) = 0
           THEN qY = [i \in 1..Len(qX) |-> NaN]
           ELSE /\ Len(qY) = Len(valid)
                /\ \A i \in 1..Len(valid) :
                    qY[i] = round63(<<valid[i]>>, qSer, qRnd)[1]

\* C9: for a fixed series and policy, two calls with valid inputs x <= y
\* return round63(x) <= round63(y), also when x and y lie in different decades.
\* Every call may follow every other, so the steps range over all pairs.
C9_Monotone ==
    [][(QCalled /\ QCalled' /\ qX[1] <= qX'[1]) => qY[1] <= qY'[1]]_vars

\* Two consecutive calls with x < y in different decades, the second one
\* returning a value of the upper decade.
C9_Witness ==
    qCrossed /\ QCalled /\ qX[1] > 10000 /\ qY[1] >= 10000

\* C10: for a valid input the bin index is an index of the extended series
\* built for the call, the output is a member of it between its smallest and
\* largest value, and the series has a value at or below and a value at or
\* above the input.
C10_RangeContainment ==
    QCalled =>
        LET pns == Pns(qX, qSer)
            idx == round63idx(qX, qSer, qRnd)
        IN /\ Len(idx) = 1
           /\ idx[1] \in 0..(Len(pns) - 1)
           /\ qY = <<pns[idx[1] + 1]>>
           /\ pns[1] <= qY[1] /\ qY[1] <= pns[Len(pns)]
           /\ \E v \in Range(pns) : v <= qX[1]
           /\ \E v \in Range(pns) : v >= qX[1]

\* A call on an exact power of ten, where omn = omx, under the policy that
\* selects the highest bin.
C10_Witness ==
    QCalled /\ qX[1] = 10000 /\ qRnd = "up" /\ qY[1] > 10000

(***************************************************************************)
(* Strings.  A string is a sequence of one-character strings.  The micro   *)
(* sign chr(181) is the element MICRO.                                     *)
(***************************************************************************)
MICRO == "micro-sign"

DigitChars == <<"0", "1", "2", "3", "4", "5", "6", "7", "8", "9">>

IsDigit(c) == c \in Range(DigitChars)

DigitOf(c) == (CHOOSE d \in 1..10 : DigitChars[d] = c) - 1

IsSpace(c) == c \in {" ", "\t", "\n"}

\* str.replace(old, new): every non-overlapping occurrence, left to right
RECURSIVE Replace(_, _, _)
Replace(s, old, new) ==
    IF Len(s) < Len(old) THEN s
    ELSE IF SubSeq(s, 1, Len(old)) = old
         THEN new \o Replace(SubSeq(s, Len(old) + 1, Len(s)), old, new)
         ELSE <<s[1]>> \o Replace(Tail(s), old, new)

\* str.lower(), on the letters that occur in value tokens
LowerChar(c) ==
    CASE c = "M" -> "m" [] c = "G" -> "g" [] c = "K" -> "k" [] c = "F" -> "f"
      [] c = "H" -> "h" [] c = "E" -> "e" [] c = "P" -> "p" [] c = "N" -> "n"
      [] c = "U" -> "u" [] OTHER -> c

\* A mutant of Lower: the case is kept.
KeepCase(s) == s

Lower(s) == [i \in 1..Len(s) |-> LowerChar(s[i])]

\* str.isnumeric(): not empty and digits only
IsNumeric(s) == Len(s) > 0 /\ \A i \in 1..Len(s) : IsDigit(s[i])

\* sub in s
Contains(s, sub) ==
    \E i \in 0..(Len(s) - Len(sub)) : SubSeq(s, i + 1, i + Len(sub)) = sub

\* ' '.join(tokens)
RECURSIVE Join(_)
Join(tokens) ==
    IF Len(tokens) = 0 THEN <<>>
    ELSE IF Len(tokens) = 1 THEN tokens[1]
    ELSE tokens[1] \o <<" ">> \o Join(Tail(tokens))

\* line.strip().split(): the maximal runs of non-blank characters
RECURSIVE Split(_)
Split(s) ==
    IF Len(s) = 0 THEN <<>>
    ELSE IF IsSpace(s[1]) THEN Split(Tail(s))
    ELSE LET n == SetMin({i \in 1..(Len(s) + 1) : i = Len(s) + 1 \/ IsSpace(s[i])})
         IN <<SubSeq(s, 1, n - 1)>> \o Split(SubSeq(s, n, Len(s)))

(***************************************************************************)
(* Decimal numbers.  A float is a record [m, e] standing for m * 10^e,     *)
(* with m not divisible by ten (m = 0 has e = 0).                          *)
(***************************************************************************)
RECURSIVE Normalise(_)
Normalise(v) ==
    IF v.m = 0 THEN [m |-> 0, e |-> 0]
    ELSE IF v.m % 10 = 0 THEN Normalise([m |-> v.m \div 10, e |-> v.e + 1])
    ELSE v

RECURSIVE DigitsVal(_)
DigitsVal(ds) ==
    IF Len(ds) = 0 THEN 0
    ELSE 10 * DigitsVal(SubSeq(ds, 1, Len(ds) - 1)) + DigitOf(ds[Len(ds)])

\* The longest prefix of s made of digits
TakeDigits(s) ==
    SubSeq(s, 1, SetMax({n \in 0..Len(s) : \A i \in 1..n : IsDigit(s[i])}))

Drop(s, n) == SubSeq(s, n + 1, Len(s))

\* float(s): [ok |-> FALSE] when s is no numeral (ValueError), otherwise
\* [ok |-> TRUE, v |-> the value].  Numerals are
\* [sign] digits [. digits] [e [sign] digits] with a digit in the mantissa.
ParseFloat(s) ==
    LET neg == Len(s) > 0 /\ s[1] = "-"
        s1 == IF Len(s) > 0 /\ s[1] \in {"+", "-"} THEN Tail(s) ELSE s
        ip == TakeDigits(s1)
        s2 == Drop(s1, Len(ip))
        dot == Len(s2) > 0 /\ s2[1] = "."
        fp == IF dot THEN TakeDigits(Tail(s2)) ELSE <<>>
        s3 == IF dot THEN Drop(s2, 1 + Len(fp)) ELSE s2
        ex == Len(s3) > 0 /\ s3[1] \in {"e", "E"}
        s4 == IF ex THEN Tail(s3) ELSE s3
        eneg == ex /\ Len(s4) > 0 /\ s4[1] = "-"
        s5 == IF ex /\ Len(s4) > 0 /\ s4[1] \in {"+", "-"} THEN Tail(s4) ELSE s4
        ed == IF ex THEN TakeDigits(s5) ELSE <<>>
        s6 == Drop(s5, Len(ed))
        mant == DigitsVal(ip \o fp)
        expo == IF eneg THEN -DigitsVal(ed) ELSE DigitsVal(ed)
    IN IF Len(ip) + Len(fp) > 0 /\ (ex => Len(ed) > 0) /\ Len(s6) = 0
       THEN [ok |-> TRUE,
             v |-> Normalise([m |-> IF neg THEN -mant ELSE mant,
                              e |-> expo - Len(fp)])]
       ELSE [ok |-> FALSE]

\* The digits of a natural number, most significant first
RECURSIVE DigitsOf(_)
DigitsOf(n) ==
    IF n < 10 THEN <<DigitChars[n + 1]>>
    ELSE DigitsOf(n \div 10) \o <<DigitChars[(n % 10) + 1]>>

\* f'{v:.12e}' for a value with at most 13 significant digits: one digit, the
\* point, twelve digits, e, the sign and at least two digits of the exponent
Format12e(v) ==
    LET ds == DigitsOf(Abs(v.m))
        pad == [i \in 1..(13 - Len(ds)) |-> "0"]
        all == ds \o pad
        ex == IF v.m = 0 THEN 0 ELSE v.e + Len(ds) - 1
        exd == DigitsOf(Abs(ex))
    IN (IF v.m < 0 THEN <<"-">> ELSE <<>>)
       \o <<all[1], ".">> \o Tail(all) \o <<"e">>
       \o (IF ex < 0 THEN <<"-">> ELSE <<"+">>)
       \o (IF Len(exd) < 2 THEN <<"0">> ELSE <<>>) \o exd

(***************************************************************************)
(* main: binding resolution and value decoding; optLTspice: the netlist    *)
(* update.  Line and token indices held in the state are 0-based, as in    *)
(* the program; sequences are 1-based.                                     *)
(***************************************************************************)
\* Bounds of the netlist model.
MaxLines == 3

MaxNames == 2

MaxEvals == 2

LineR1 == << <<"R", "1">>, <<"N", "1">>, <<"0">>, <<"1", "k">> >>

LineR11 == << <<"R", "1", "1">>, <<"N", "1">>, <<"N", "2">>, <<"2", ".", "2", "k">> >>

LineC1 == << <<"C", "1">>, <<"N", "2">>, <<"0">>, <<"1", "0", "0", "n", "F">> >>

LineV1 == << <<"V", "1">>, <<"N", "1">>, <<"0">>, <<"A", "C">>, <<"1">> >>

LineEnd == << <<".", "e", "n", "d">> >>

LinePool == {LineR1, LineR11, LineC1, LineV1, LineEnd}

NamePool == {<<"R", "1">>, <<"R", "1", "1">>, <<"C", "1">>, <<"V", "1">>}

\* Sequences of 1..n distinct elements of S
DistinctSeqs(S, n) ==
    UNION {{q \in [1..len -> S] : \A i, j \in 1..len : i # j => q[i] # q[j]}
           : len \in 1..n}

\* The configured bounds of requested instance kk (0-based): distinct values,
\* so that a bound tells which instance it was configured for.
simControlMinVals(kk) == 10 * (kk + 1)

simControlMaxVals(kk) == 10 * (kk + 1) + 5

\* simControlOPtInstNames[kk] in netlist[k][0]
NameOnLine(names, nl, kk, k) == Contains(nl[k + 1][1], names[kk + 1])

\* The (kk, k) pairs for which the test of the nested loops succeeds, in the
\* order the loops visit them: kk outer, k inner.
Matches(names, nl) ==
    LET pairs == [i \in 1..(Len(names) * Len(nl)) |->
                     <<(i - 1) \div Len(nl), (i - 1) % Len(nl)>>]
    IN SelectSeq(pairs, LAMBDA pr : NameOnLine(names, nl, pr[1], pr[2]))

\* main, binding resolution: fills OptLine, UB, LB at position kkk-1 for each
\* match; a match beyond numOptd positions raises IndexError; a count other
\* than numOptd ends the run.
Resolve ==
    /\ netPc = "read"
    /\ LET numOptd == Len(simControlOPtInstNames)
           ms == Matches(simControlOPtInstNames, netlist)
           filled == IF Len(ms) < numOptd THEN Len(ms) ELSE numOptd
       IN /\ OptLine' = [j \in 1..numOptd |-> IF j <= filled THEN ms[j][2] ELSE 0]
          /\ UB' = [j \in 1..numOptd |->
                       IF j <= filled THEN simControlMaxVals(ms[j][1]) ELSE 0]
          /\ LB' = [j \in 1..numOptd |->
                       IF j <= filled THEN simControlMinVals(ms[j][1]) ELSE 0]
          /\ netPc' = IF Len(ms) > numOptd THEN "IndexError"
                      ELSE IF numOptd # Len(ms) THEN "exit"
                      ELSE "resolved"
    /\ UNCHANGED <<simControlOPtInstNames, netlist, netlistRead, netFile,
                   nomParams, optParams, XD, iterationCount>>
    /\ UNCHANGED <<quantVars, runVars, schemVars>>

\* main, the suffix substitutions applied to a value token before float()
DecodeString(tok) ==
    LET s0 == Replace(tok, <<MICRO>>, <<"u">>)
        s1 == Replace(s0, <<"M">>, <<"e", "6">>)
        s2 == Replace(s1, <<"G">>, <<"e", "9">>)
        s3 == Lower(s2)
        s4 == Replace(s3, <<"k">>, <<"e", "3">>)
        s5 == Replace(s4, <<"p", "f">>, <<"e", "-", "1", "2">>)
        s6 == Replace(s5, <<"p", "h">>, <<"e", "-", "1", "2">>)
        s7 == Replace(s6, <<"p">>, <<"e", "-", "1", "2">>)
        s8 == Replace(s7, <<"n", "f">>, <<"e", "-", "9">>)
        s9 == Replace(s8, <<"n", "h">>, <<"e", "-", "9">>)
        s10 == Replace(s9, <<"n">>, <<"e", "-", "9">>)
        s11 == Replace(s10, <<"u", "f">>, <<"e", "-", "6">>)
        s12 == Replace(s11, <<"u", "h">>, <<"e", "-", "6">>)
        s13 == Replace(s12, <<"u">>, <<"e", "-", "6">>)
        s14 == Replace(s13, <<"m", "f">>, <<"e", "-", "3">>)
        s15 == Replace(s14, <<"m", "h">>, <<"e", "-", "3">>)
        s16 == Replace(s15, <<"m">>, <<"e", "-", "3">>)
    IN IF IsNumeric(s0) THEN s0 ELSE s16

\* float(newStr) of a value token
DecodeValue(tok) == ParseFloat(DecodeString(tok))

\* main, nominal values: netlist[OptLine[k]][3] decoded for each binding in
\* turn; a line of fewer than four tokens raises IndexError, a token that is
\* no numeral after the substitutions raises ValueError.
DecodeNominal ==
    /\ netPc = "resolved"
    /\ LET numOptd == Len(simControlOPtInstNames)
           short(k) == Len(netlist[OptLine[k] + 1]) < 4
           bad(k) == short(k) \/ ~DecodeValue(netlist[OptLine[k] + 1][4]).ok
           fails == {k \in 1..numOptd : bad(k)}
       IN IF fails = {}
          THEN /\ nomParams' = [k \in 1..numOptd |->
                                   DecodeValue(netlist[OptLine[k] + 1][4]).v]
               /\ netPc' = "decoded"
          ELSE /\ nomParams' = <<>>
               /\ netPc' = IF short(SetMin(fails)) THEN "IndexError" ELSE "ValueError"
    /\ UNCHANGED <<simControlOPtInstNames, netlist, netlistRead, netFile,
                   OptLine, UB, LB, optParams, XD, iterationCount>>
    /\ UNCHANGED <<quantVars, runVars, schemVars>>

\* main, from the setup report to the call of least_squares: the user
\* confirms twice (any answer but c ends the run); the netlist is not touched.
EnterLoop ==
    /\ netPc = "decoded"
    /\ netPc' \in {"optimizing", "exit"}
    /\ UNCHANGED <<simControlOPtInstNames, netlist, netlistRead, netFile,
                   OptLine, UB, LB, nomParams, optParams, XD, iterationCount>>
    /\ UNCHANGED <<quantVars, runVars, schemVars>>

\* The solver's parameters are multiples of ln 2: optParams[k] = p * ln 2.
ParamSteps == {-1, 0, 1}

RECURSIVE IntPow(_, _)
IntPow(b, n) == IF n <= 0 THEN 1 ELSE b * IntPow(b, n - 1)

\* nomParams[k] * np.exp(optParams[k]) for optParams[k] = p * ln 2
ExpScale(nom, p) ==
    IF p >= 0 THEN Normalise([m |-> nom.m * IntPow(2, p), e |-> nom.e])
    ELSE Normalise([m |-> nom.m * IntPow(5, -p), e |-> nom.e + p])

\* A mutant of SetValueToken: the token before the value field is replaced.
SetValueTokenOffByOne(line, tok) == [line EXCEPT ![3] = tok]

\* netlist[...][3] = tok
SetValueToken(line, tok) == [line EXCEPT ![4] = tok]

\* The first loop of optLTspice: the value token of every bound line, one
\* binding after the other.
RECURSIVE WriteValues(_, _, _, _, _)
WriteValues(nl, lines, noms, params, k) ==
    IF k > Len(lines) THEN nl
    ELSE WriteValues(
            [nl EXCEPT ![lines[k] + 1] =
                SetValueToken(nl[lines[k] + 1], Format12e(ExpScale(noms[k], params[k])))],
            lines, noms, params, k + 1)

\* The file written by optLTspice: one line per netlist line
Serialize(nl) == [i \in 1..Len(nl) |-> Join(nl[i])]

\* [line.strip().split() for line in readlines()]
ParseNetlist(file) == [i \in 1..Len(file) |-> Split(file[i])]

\* np.zeros(numOptd), the vector least_squares starts from
StartParams == [k \in 1..Len(OptLine) |-> 0]

\* optLTspice, up to the netlist file being written (the simulation it then
\* runs is modelled by the synchronizer actions), and its evaluation counter.
\* The first evaluation least_squares asks for is at the start vector, the
\* later ones at vectors of its choice.
OptWriteNetlist ==
    /\ netPc = "optimizing"
    /\ iterationCount < MaxEvals
    /\ \E params \in [1..Len(OptLine) -> ParamSteps] :
        /\ iterationCount = 0 => params = StartParams
        /\ optParams' = params
        /\ netlist' = WriteValues(netlist, OptLine, nomParams, params, 1)
        /\ netFile' = Serialize(netlist')
    /\ iterationCount' = iterationCount + 1
    /\ UNCHANGED <<netPc, simControlOPtInstNames, netlistRead, OptLine, UB, LB,
                   nomParams, XD>>
    /\ UNCHANGED <<quantVars, runVars, schemVars>>

\* X = least_squares(...).x; passCellDict['XD'] = X: the solver returns one of
\* the vectors it has evaluated, the start vector or a later one; of the later
\* ones the model has the latest.
SolverReturns ==
    /\ netPc = "optimizing"
    /\ iterationCount > 0
    /\ XD' \in {StartParams, optParams}
    /\ netPc' = "solved"
    /\ UNCHANGED <<simControlOPtInstNames, netlist, netlistRead, netFile,
                   OptLine, UB, LB, nomParams, optParams, iterationCount>>
    /\ UNCHANGED <<quantVars, runVars, schemVars>>

\* The state after main has read and tokenized the netlist file.
InitNet ==
    /\ netPc = "read"
    /\ simControlOPtInstNames \in DistinctSeqs(NamePool, MaxNames)
    /\ netlist \in DistinctSeqs(LinePool, MaxLines)
    /\ netlistRead = netlist
    /\ netFile = Serialize(netlist)
    /\ OptLine = <<>>
    /\ UB = <<>>
    /\ LB = <<>>
    /\ nomParams = <<>>
    /\ optParams = <<>>
    /\ XD = <<>>
    /\ iterationCount = 0
    /\ QuantIdle
    /\ RunIdle
    /\ SchemIdle

NextNet == Resolve \/ DecodeNominal \/ EnterLoop \/ OptWriteNetlist \/ SolverReturns

SpecNet == InitNet /\ [][NextNet]_vars

(***************************************************************************)
(* Claims about the netlist handling                                       *)
(***************************************************************************)
\* The netlist lines (0-based) whose designator contains requested name kk
LinesNaming(kk) ==
    {k \in 0..(Len(netlist) - 1) : NameOnLine(simControlOPtInstNames, netlist, kk, k)}

\* C5 (as stated): optimization is entered only if every requested instance
\* name is contained in the designator of exactly one netlist line, and then
\* OptLine[k], LB[k] and UB[k] belong to requested instance k.
C5_EveryNameResolvesToOneLine ==
    netPc \in {"optimizing", "solved"} =>
        \A kk \in 0..(Len(simControlOPtInstNames) - 1) :
            /\ Cardinality(LinesNaming(kk)) = 1
            /\ OptLine[kk + 1] \in LinesNaming(kk)
            /\ LB[kk + 1] = simControlMinVals(kk)
            /\ UB[kk + 1] = simControlMaxVals(kk)

\* What the check of main does guarantee: the total number of (name, line)
\* matches equals the number of requested names.
C5_MatchCountEqualsNames ==
    netPc \in {"resolved", "decoded", "optimizing", "solved"} =>
        Len(Matches(simControlOPtInstNames, netlist)) = Len(simControlOPtInstNames)

\* The lines (1-based) bound to tunable instances
BoundLines == {OptLine[k] + 1 : k \in 1..Len(OptLine)}

\* nl differs from the netlist read at startup at most in token index 3 of
\* bound lines: same lines in the same order, same number of tokens.
OnlyValueTokensDiffer(nl) ==
    /\ Len(nl) = Len(netlistRead)
    /\ \A i \in 1..Len(nl) :
        /\ Len(nl[i]) = Len(netlistRead[i])
        /\ \A j \in 1..Len(nl[i]) :
            nl[i][j] # netlistRead[i][j] => (j = 4 /\ i \in BoundLines)

\* C6: after any sequence of objective evaluations the in-memory netlist and
\* the netlist file serialized from it differ from the netlist read at
\* startup only in token index 3 of the lines bound to tunable instances.
C6_OnlyBoundValueTokensChange ==
    netPc \in {"optimizing", "solved"} =>
        /\ OnlyValueTokensDiffer(netlist)
        /\ OnlyValueTokensDiffer(ParseNetlist(netFile))
        /\ ParseNetlist(netFile) = netlist

\* Two evaluations have rewritten a bound value token, and the netlist has a
\* line that is not bound and a bound line with a token after the value.
C6_Witness ==
    /\ netPc = "solved" /\ iterationCount = 2
    /\ \E i \in BoundLines : netlist[i][4] # netlistRead[i][4]
    /\ \E i \in 1..Len(netlist) : i \notin BoundLines
    /\ ParseNetlist(netFile) = netlist

(***************************************************************************)
(* The simulations of a run: runSim, the synchronizer part and the         *)
(* residual part of optLTspice, and the steps of main between them.  The   *)
(* external simulator is a process of its own per invocation: launched by  *)
(* subprocess.call, it writes the result artifact some time later, first   *)
(* a part of it and then the rest.                                         *)
(***************************************************************************)
\* Bounds of the run model.
MaxFreqs == 2

NumVariants == 2

MaxObjectiveCalls == 1

\* What a result artifact holds: nothing (no such file), no bytes, or the
\* output of a simulation (v tells outputs of different bytes apart), either
\* written in part or complete.
Absent == [kind |-> "absent", v |-> 0, done |-> FALSE]

EmptyFile == [kind |-> "empty", v |-> 0, done |-> FALSE]

Data(v, done) == [kind |-> "data", v |-> v, done |-> done]

\* hashlib.md5(open(f,'rb').read()).hexdigest(): equal exactly for equal bytes
Md5(content) == <<"md5", content.kind, content.v, content.done>>

\* LTspice_outputfile of the three runSim calls and of optLTspice
SimFile(st) == IF st = "quant" THEN "opt_raw" ELSE "raw"

\* runSim up to the hash: the artifact is removed if present, created empty
\* and hashed.
RunSimPrepare ==
    /\ pc = "prepare" /\ stage \in {"init", "post", "quant"}
    /\ files' = [files EXCEPT ![SimFile(stage)] = EmptyFile]
    /\ md5' = Md5(EmptyFile)
    /\ pc' = "invoke"
    /\ UNCHANGED <<stage, md5_post, status, sims, hashSeen, matchMode, genStatus, numFreqs,
                   targetLen, errWeightsLen, traceLen, retLen, iterationCount>>
    /\ UNCHANGED <<quantVars, netVars, schemVars>>

\* optLTspice up to the hash: the netlist is written (modelled by
\* OptWriteNetlist) and the artifact left by the previous simulation hashed.
OptPrepare ==
    /\ pc = "prepare" /\ stage = "opt"
    /\ md5' = Md5(files[SimFile(stage)])
    /\ retLen' = -1
    /\ pc' = "invoke"
    /\ UNCHANGED <<stage, files, md5_post, status, sims, hashSeen, matchMode, genStatus,
                   numFreqs, targetLen, errWeightsLen, traceLen, iterationCount>>
    /\ UNCHANGED <<quantVars, netVars, schemVars>>

\* status = subprocess.call(RunLTstring, shell=True); md5_post = md5.  With
\* status 0 a simulator process has been launched; with another status one
\* may or may not have been.
Invoke ==
    /\ pc = "invoke"
    /\ \E st \in {0, 1}, launched \in BOOLEAN :
        /\ st = 0 => launched
        /\ status' = st
        /\ sims' = Append(sims, [file |-> SimFile(stage),
                                 st |-> IF launched THEN "launched" ELSE "none",
                                 v |-> 0])
    /\ md5_post' = md5
    /\ hashSeen' = FALSE
    /\ pc' = "poll"
    /\ UNCHANGED <<stage, files, md5, matchMode, genStatus, numFreqs, targetLen,
                   errWeightsLen, traceLen, retLen, iterationCount>>
    /\ UNCHANGED <<quantVars, netVars, schemVars>>

\* A mutant of WhileCondition: the loop is never entered.
WhileConditionNever(pre, post) == FALSE

\* while md5_post == md5
WhileCondition(pre, post) == post = pre

\* One iteration of the poll loop: sleep, then hash the artifact again.
PollIteration ==
    /\ pc = "poll"
    /\ WhileCondition(md5, md5_post)
    /\ md5_post' = Md5(files[SimFile(stage)])
    /\ hashSeen' = (hashSeen \/ md5_post' # md5)
    /\ UNCHANGED <<stage, pc, files, md5, status, sims, matchMode, genStatus, numFreqs,
                   targetLen, errWeightsLen, traceLen, retLen, iterationCount>>
    /\ UNCHANGED <<quantVars, netVars, schemVars>>

\* The poll loop ends.
PollExit ==
    /\ pc = "poll"
    /\ ~WhileCondition(md5, md5_post)
    /\ pc' = "check"
    /\ UNCHANGED <<stage, files, md5, md5_post, status, sims, hashSeen, matchMode, genStatus,
                   numFreqs, targetLen, errWeightsLen, traceLen, retLen,
                   iterationCount>>
    /\ UNCHANGED <<quantVars, netVars, schemVars>>

\* if status: print error; sys.exit() -- after the poll loop, before the
\* settle delay.
CheckStatus ==
    /\ pc = "check"
    /\ pc' = IF status # 0 THEN "exited" ELSE "read"
    /\ UNCHANGED <<stage, files, md5, md5_post, status, sims, hashSeen, matchMode, genStatus,
                   numFreqs, targetLen, errWeightsLen, traceLen, retLen,
                   iterationCount>>
    /\ UNCHANGED <<quantVars, netVars, schemVars>>

\* The lengths of the traces RawRead may return for an artifact: the full
\* trace of a complete artifact (the analysis of the schematic has MaxFreqs
\* frequency points); of an artifact written in part (or empty) any shorter
\* trace.
ReadableLens(content) ==
    IF content.kind = "data" /\ content.done
    THEN {MaxFreqs}
    ELSE 0..(MaxFreqs - 1)

\* RawRead raises on an artifact it cannot parse: one written in part or empty.
RawReadMayRaise(content) == ~(content.kind = "data" /\ content.done)

\* main after a runSim call: the artifact is read and the traces taken; after
\* the initial simulation numFreqs = len(freqx), after the later ones the
\* traces are only plotted.
MainRead ==
    /\ pc = "read" /\ stage \in {"init", "post", "quant"}
    /\ \/ /\ RawReadMayRaise(files[SimFile(stage)])
          /\ pc' = "error"
          /\ UNCHANGED numFreqs
       \/ \E n \in ReadableLens(files[SimFile(stage)]) :
            /\ numFreqs' = IF stage = "init" THEN n ELSE numFreqs
            /\ pc' = CASE stage = "init" -> "target"
                       [] stage = "post" -> "schematic"
                       [] stage = "quant" -> "done"
    /\ UNCHANGED <<stage, files, md5, md5_post, status, sims, hashSeen, matchMode, genStatus,
                   traceLen, targetLen, errWeightsLen, retLen, iterationCount>>
    /\ UNCHANGED <<quantVars, netVars, schemVars>>

\* The lengths of the vectors setTarget may return for n frequencies: the
\* user's function is free in them; one, n and 2n are the lengths for which
\* the checks and the arithmetic of optLTspice differ.
VectorLens(n) == {1, n, 2 * n} \ {0}

\* [target, errWeights] = setTarget(freqx, matchMode): the user's function
\* returns vectors of any length; then the user confirms (or ends the run).
SetTarget ==
    /\ pc = "target"
    /\ targetLen' \in VectorLens(numFreqs)
    /\ errWeightsLen' \in VectorLens(numFreqs)
    /\ pc' \in {"solver", "exited"}
    /\ UNCHANGED <<stage, files, md5, md5_post, status, sims, hashSeen, matchMode, genStatus,
                   numFreqs, traceLen, retLen, iterationCount>>
    /\ UNCHANGED <<quantVars, netVars, schemVars>>

\* least_squares calls the objective function once more.
SolverCalls ==
    /\ pc = "solver"
    /\ iterationCount < MaxObjectiveCalls
    /\ stage' = "opt"
    /\ pc' = "prepare"
    /\ UNCHANGED <<files, md5, md5_post, status, sims, hashSeen, matchMode, genStatus,
                   numFreqs, targetLen, errWeightsLen, traceLen, retLen,
                   iterationCount>>
    /\ UNCHANGED <<quantVars, netVars, schemVars>>

\* least_squares returns X, after at least one evaluation; main goes on to
\* the post-optimization simulation.
LeastSquaresReturns ==
    /\ pc = "solver"
    /\ iterationCount >= 1
    /\ stage' = "post"
    /\ pc' = "prepare"
    /\ UNCHANGED <<files, md5, md5_post, status, sims, hashSeen, matchMode, genStatus,
                   numFreqs, targetLen, errWeightsLen, traceLen, retLen,
                   iterationCount>>
    /\ UNCHANGED <<quantVars, netVars, schemVars>>

\* The length of a * b for one-dimensional numpy arrays of lengths la and lb:
\* equal lengths, or a length of one, which is broadcast; -1 stands for the
\* ValueError of shapes that cannot be broadcast together.
BroadcastLen(la, lb) ==
    IF la = lb THEN la
    ELSE IF la = 1 THEN lb
    ELSE IF lb = 1 THEN la
    ELSE -1

\* len(optCurrent): fresp or phase alone, or their concatenation
ResponseLen(mode, n) == IF mode = 3 THEN 2 * n ELSE n

\* if len(target) != len(optCurrent)
TargetMismatch(lt, lr) == lt # lr

\* optLTspice after the status check: the artifact is read, the response
\* compared in length with the target, the weighted error returned.
OptRead ==
    /\ pc = "read" /\ stage = "opt"
    /\ \/ /\ RawReadMayRaise(files[SimFile(stage)])
          /\ pc' = "error"
          /\ UNCHANGED <<traceLen, retLen, iterationCount>>
       \/ \E n \in ReadableLens(files[SimFile(stage)]) :
            /\ traceLen' = n
            /\ IF TargetMismatch(targetLen, ResponseLen(matchMode, n))
               THEN /\ pc' = "exited"
                    /\ UNCHANGED <<retLen, iterationCount>>
               ELSE IF BroadcastLen(targetLen, errWeightsLen) = -1
               THEN /\ pc' = "error"
                    /\ UNCHANGED <<retLen, iterationCount>>
               ELSE /\ retLen' = BroadcastLen(targetLen, errWeightsLen)
                    /\ iterationCount' = iterationCount + 1
                    /\ pc' = "solver"
    /\ UNCHANGED <<stage, files, md5, md5_post, status, sims, hashSeen, matchMode, genStatus,
                   numFreqs, targetLen, errWeightsLen>>
    /\ UNCHANGED <<quantVars, netVars, schemVars>>

\* update_schematic and the netlist generation for the _opt schematic (its
\* status is not looked at); main goes on to the simulation of the quantized
\* schematic.
UpdateSchematic ==
    /\ pc = "schematic"
    /\ genStatus' \in {0, 1}
    /\ stage' = "quant"
    /\ pc' = "prepare"
    /\ UNCHANGED <<files, md5, md5_post, status, sims, hashSeen, matchMode,
                   numFreqs, targetLen, errWeightsLen, traceLen, retLen,
                   iterationCount>>
    /\ UNCHANGED <<quantVars, netVars, schemVars>>

\* The simulator process of invocation i starts to write its artifact.
SimBegin(i) ==
    /\ sims[i].st = "launched"
    /\ \E v \in 1..NumVariants :
        /\ sims' = [sims EXCEPT ![i].st = "writing", ![i].v = v]
        /\ files' = [files EXCEPT ![sims[i].file] = Data(v, FALSE)]
    /\ UNCHANGED <<stage, pc, md5, md5_post, status, hashSeen, matchMode, genStatus, numFreqs,
                   targetLen, errWeightsLen, traceLen, retLen, iterationCount>>
    /\ UNCHANGED <<quantVars, netVars, schemVars>>

\* The simulator process of invocation i completes its artifact and ends.
SimFinish(i) ==
    /\ sims[i].st = "writing"
    /\ sims' = [sims EXCEPT ![i].st = "done", ![i].v = 0]
    /\ files' = [files EXCEPT ![sims[i].file] = Data(sims[i].v, TRUE)]
    /\ UNCHANGED <<stage, pc, md5, md5_post, status, hashSeen, matchMode, genStatus, numFreqs,
                   targetLen, errWeightsLen, traceLen, retLen, iterationCount>>
    /\ UNCHANGED <<quantVars, netVars, schemVars>>

Simulator == \E i \in 1..Len(sims) : SimBegin(i) \/ SimFinish(i)

\* main about to call runSim for the initial simulation, after a netlist
\* generation that returned 0: the artifacts are absent or left by an earlier
\* run of the program.
InitRun ==
    /\ stage = "init"
    /\ pc = "prepare"
    /\ \E left \in {Absent, Data(1, TRUE)} : files = [f \in {"raw", "opt_raw"} |-> left]
    /\ md5 = <<>>
    /\ md5_post = <<>>
    /\ status = 0
    /\ sims = <<>>
    /\ hashSeen = FALSE
    /\ matchMode \in {1, 2, 3}
    /\ numFreqs = 0
    /\ targetLen = 0
    /\ errWeightsLen = 0
    /\ traceLen = -1
    /\ retLen = -1
    /\ genStatus = 0
    /\ iterationCount = 0
    /\ QuantIdle
    /\ NetIdle
    /\ SchemIdle

Program ==
    \/ RunSimPrepare \/ OptPrepare \/ Invoke \/ PollIteration \/ PollExit
    \/ CheckStatus \/ MainRead \/ SetTarget \/ SolverCalls \/ LeastSquaresReturns
    \/ OptRead \/ UpdateSchematic

NextRun == Program \/ Simulator

SpecRun == InitRun /\ [][NextRun]_vars

(***************************************************************************)
(* Claims about the synchronizer and the objective function.               *)
(***************************************************************************)
\* The number of simulator invocations issued so far.
Invocations == Len(sims)

\* C1: across any sequence of runSim calls and optLTspice evaluations, a new
\* simulator invocation is never issued before the poll loop of the preceding
\* invocation has observed the artifact's hash differ from the hash taken
\* just before that preceding invocation.
C1_InvokeOnlyAfterHashChange ==
    [][(Invocations' = Invocations + 1 /\ Invocations >= 1) => hashSeen]_vars

\* The post-optimization runSim has issued its invocation, after those of the
\* initial runSim and of the objective evaluations.
C1_Witness == stage = "post" /\ pc = "poll" /\ Invocations >= 3

\* The poll loop can never end: the hash it compares with is the hash of the
\* artifact as it is, and no simulator process is left that would write to it.
PollsForever ==
    /\ pc = "poll"
    /\ WhileCondition(md5, md5_post)
    /\ Md5(files[SimFile(stage)]) = md5
    /\ \A i \in 1..Len(sims) :
        sims[i].file = SimFile(stage) => sims[i].st \in {"none", "done"}

\* C2: whenever the invocation made by the synchronizer reports a nonzero
\* status the run aborts: no trace is read and no residual returned for that
\* invocation, and the run reaches the terminated state, whether or not the
\* artifact ever changes afterwards (it is never left polling an artifact
\* that will not change).
C2_NonzeroStatusAborts ==
    status # 0 => /\ pc \in {"poll", "check", "exited"}
                  /\ ~PollsForever

\* C3: in every synchronizer call in which the simulator is launched with
\* status 0, completes and writes its artifact, the poll loop exits, whatever
\* the artifact left by the previous run held (the call is never left polling
\* an artifact that will not change).
C3_PollLoopExits ==
    (pc = "poll" /\ status = 0 /\ sims[Len(sims)].st = "done") => ~PollsForever

\* C4: optLTspice returns a residual only if the target length, the weight
\* length and the response length (N, or 2N in combined mode) are all equal.
C4_ResidualOnlyIfLengthsEqual ==
    retLen # -1 => /\ targetLen = ResponseLen(matchMode, traceLen)
                   /\ errWeightsLen = targetLen

(***************************************************************************)
(* Value decoding on its own: main with one tunable instance R1 and a      *)
(* netlist of the one line R1 N1 0 <value token>, the token drawn from     *)
(* numerals followed by a suffix.                                          *)
(***************************************************************************)
\* Bounds of the numerals: integer part and one-digit fraction.
MaxMantissa == 11

MaxFraction == 2

\* The numeral n (f = 0) or n.f
Numeral(n, f) ==
    IF f = 0 THEN DigitsOf(n) ELSE DigitsOf(n) \o <<".">> \o DigitsOf(f)

\* The value of Numeral(n, f)
NumeralValue(n, f) == [m |-> 10 * n + f, e |-> -1]

\* The supported suffixes with the power of ten each stands for; no suffix
\* stands for 10^0.
SupportedSuffixes ==
    { [s |-> <<>>, e |-> 0],
      [s |-> <<"k">>, e |-> 3], [s |-> <<"M">>, e |-> 6], [s |-> <<"G">>, e |-> 9],
      [s |-> <<"m">>, e |-> -3], [s |-> <<"u">>, e |-> -6],
      [s |-> <<MICRO>>, e |-> -6], [s |-> <<"n">>, e |-> -9],
      [s |-> <<"p">>, e |-> -12],
      [s |-> <<"p", "F">>, e |-> -12], [s |-> <<"p", "H">>, e |-> -12],
      [s |-> <<"n", "F">>, e |-> -9], [s |-> <<"n", "H">>, e |-> -9],
      [s |-> <<"u", "F">>, e |-> -6], [s |-> <<"u", "H">>, e |-> -6],
      [s |-> <<"m", "F">>, e |-> -3], [s |-> <<"m", "H">>, e |-> -3] }

\* Suffixes no rule matches; a token ending in one is no numeral.
UnsupportedSuffixes == { <<"x">>, <<"%">>, <<"o">> }

DecodeTokens ==
    {Numeral(n, f) \o suf :
        n \in 0..MaxMantissa, f \in 0..MaxFraction,
        suf \in {r.s : r \in SupportedSuffixes} \cup UnsupportedSuffixes}

\* The state after main has read and tokenized the netlist file.
InitDecode ==
    /\ netPc = "read"
    /\ simControlOPtInstNames = << <<"R", "1">> >>
    /\ \E tok \in DecodeTokens :
        netlist = << << <<"R", "1">>, <<"N", "1">>, <<"0">>, tok >> >>
    /\ netlistRead = netlist
    /\ netFile = Serialize(netlist)
    /\ OptLine = <<>>
    /\ UB = <<>>
    /\ LB = <<>>
    /\ nomParams = <<>>
    /\ optParams = <<>>
    /\ XD = <<>>
    /\ iterationCount = 0
    /\ QuantIdle
    /\ RunIdle
    /\ SchemIdle

NextDecode == Resolve \/ DecodeNominal

SpecDecode == InitDecode /\ [][NextDecode]_vars

\* The value token of the one netlist line.
ValueToken == netlist[1][4]

\* The decoding loop has run.
DecodeDone == netPc \notin {"read", "resolved"}

\* C12: a numeral followed by a supported suffix decodes to the numeral times
\* the suffix's power of ten (M is 1e6, m is 1e-3, the two-letter forms count
\* as a whole); a token that matches no rule and is no numeral raises the
\* parse error, which ends the run before any simulation is invoked.
C12_DecodeBySuffix ==
    DecodeDone =>
        \A n \in 0..MaxMantissa, f \in 0..MaxFraction :
            /\ \A r \in SupportedSuffixes :
                ValueToken = Numeral(n, f) \o r.s =>
                    /\ netPc = "decoded"
                    /\ nomParams =
                         <<Normalise([m |-> NumeralValue(n, f).m,
                                      e |-> NumeralValue(n, f).e + r.e])>>
            /\ \A suf \in UnsupportedSuffixes :
                ValueToken = Numeral(n, f) \o suf =>
                    /\ netPc = "ValueError"
                    /\ nomParams = <<>>
                    /\ sims = <<>>

\* 2.2mF has been decoded to 2.2e-3, and 2.2M to 2.2e6.
C12_Witness ==
    /\ netPc = "decoded"
    /\ \/ ValueToken = <<"2", ".", "2", "m", "F">> /\ nomParams = <<[m |-> 22, e |-> -4]>>
       \/ ValueToken = <<"2", ".", "2", "M">> /\ nomParams = <<[m |-> 22, e |-> 5]>>

(***************************************************************************)
(* Claims about the statuses of the external invocations.                  *)
(***************************************************************************)
\* C13: no failure is swallowed: after a simulator invocation that returned
\* a nonzero status the run does not go on to a read or a later stage, and
\* after a netlist generation that returned a nonzero status the run has
\* stopped.
C13_NoFailureSwallowed ==
    /\ status # 0 => pc \in {"poll", "check", "exited"}
    /\ genStatus # 0 => pc = "exited"

(***************************************************************************)
(* Claims about the returned optimum.                                      *)
(***************************************************************************)
\* C16: when the solver has returned X, the netlist file the post-optimization
\* simulation runs on (the file as the latest evaluation left it) has, for
\* every binding k, the value token nomParams[k] * exp(X[k]) as the encoder
\* formats it.
C16_NetlistReflectsReturnedOptimum ==
    netPc = "solved" =>
        \A k \in 1..Len(OptLine) :
            ParseNetlist(netFile)[OptLine[k] + 1][4] =
                Format12e(ExpScale(nomParams[k], XD[k]))

(***************************************************************************)
(* Claims about reads of the artifact.                                     *)
(***************************************************************************)
\* C15: the artifact is never read while the simulation that produces it is
\* still writing: every trace read (RawRead in optLTspice, and in main after
\* runSim) is taken only when the simulator of the current invocation has
\* finished writing the artifact.
C15_ReadOnlyAfterWrite ==
    [][(pc = "read" /\ pc' # "read") => sims[Len(sims)].st = "done"]_vars

(***************************************************************************)
(* update_schematic.  The schematic is an LTspice .asc file: a header      *)
(* record and, for every component, a SYMBOL record, a SYMATTR InstName    *)
(* record and, unless the component has no value, a SYMATTR Value record.  *)
(***************************************************************************)
\* Bound: the number of components of the schematic.
MaxSymbols == 2

TokSYMATTR == <<"S", "Y", "M", "A", "T", "T", "R">>

TokInstName == <<"I", "n", "s", "t", "N", "a", "m", "e">>

TokValue == <<"V", "a", "l", "u", "e">>

HeaderRecord == << <<"V", "e", "r", "s", "i", "o", "n">>, <<"4">> >>

SymbolRecord ==
    << <<"S", "Y", "M", "B", "O", "L">>, <<"r", "e", "s">>, <<"9", "6">>,
       <<"8", "0">>, <<"R", "0">> >>

InstNameRecord(name) == <<TokSYMATTR, TokInstName, name>>

ValueRecord == <<TokSYMATTR, TokValue, <<"1", "k">> >>

\* The records of one component
Component(name, hasValue) ==
    <<SymbolRecord, InstNameRecord(name)>>
        \o (IF hasValue THEN <<ValueRecord>> ELSE <<>>)

\* The designators of the components a schematic may hold
SchemInstNames == {<<"R", "1">>, <<"R", "1", "1">>, <<"C", "1">>}

Components == {Component(n, h) : n \in SchemInstNames, h \in BOOLEAN}

RECURSIVE Concat(_)
Concat(seqs) == IF Len(seqs) = 0 THEN <<>> ELSE Head(seqs) \o Concat(Tail(seqs))

\* The schematic files: the header and one to MaxSymbols components, one
\* record per line.
SchematicFiles ==
    UNION {{Serialize(<<HeaderRecord>> \o Concat(cs)) : cs \in [1..len -> Components]}
           : len \in 1..MaxSymbols}

\* simControl: the tolerance series of requested instance xx (0-based)
simControlInstTol(xx) ==
    CASE xx = 0 -> "E96" [] xx = 1 -> "E24" [] OTHER -> "E12"

\* round63(v, ser) for a positive decimal v of at most four digits: the
\* extended series repeats from decade to decade, so the call is made on the
\* mantissa as a four-digit integer and the decimal exponent put back.
Quantize(v, ser) ==
    LET shift == 4 - Len(DigitsOf(v.m))
        y == round63(<<v.m * Pow10(shift)>>, ser, "arithmetic")[1]
    IN Normalise([m |-> y, e |-> v.e - shift])

\* f'{v:.3e}' for a value of at most four significant digits
Format3e(v) ==
    LET ds == DigitsOf(Abs(v.m))
        pad == [i \in 1..(4 - Len(ds)) |-> "0"]
        all == ds \o pad
        ex == IF v.m = 0 THEN 0 ELSE v.e + Len(ds) - 1
        exd == DigitsOf(Abs(ex))
    IN (IF v.m < 0 THEN <<"-">> ELSE <<>>)
       \o <<all[1], ".">> \o Tail(all) \o <<"e">>
       \o (IF ex < 0 THEN <<"-">> ELSE <<"+">>)
       \o (IF Len(exd) < 2 THEN <<"0">> ELSE <<>>) \o exd

\* line[2], the value field, as a 1-based index
ValueIndex == 3

\* The loop state of update_schematic before the first record
ScanStart ==
    [changeNext |-> FALSE, instValNext |-> [m |-> 0, e |-> 0],
     roundStringNext |-> "E96", new_schem |-> <<>>, err |-> "none"]

\* The body of the loop of update_schematic for one line of the file.
ScanLine(st, raw) ==
    LET numOptd == Len(simControlOPtInstNames)
        line0 == Split(raw)
        noVal == st.changeNext /\ st.instValNext.m <= 0
        short0 == st.changeNext /\ Len(line0) < 3
        line == IF st.changeNext /\ ~noVal /\ ~short0
                THEN [line0 EXCEPT ![ValueIndex] =
                         Format3e(Quantize(st.instValNext, st.roundStringNext))]
                ELSE line0
        short1 == Len(line) < 2
        isInst == ~short1 /\ line[2] = TokInstName
        short2 == isInst /\ Len(line) < 3
        instNm == line[3]
        hits == {kk \in 1..numOptd : netlist[OptLine[kk] + 1][1] = instNm}
        bound == isInst /\ ~short2 /\ hits # {}
        unknown == bound /\ instNm \notin Range(simControlOPtInstNames)
        kk == SetMax(hits)
        xx == SetMin({j \in 1..numOptd : simControlOPtInstNames[j] = instNm}) - 1
    IN IF noVal \/ short0 \/ short1 \/ short2
       THEN [st EXCEPT !.err = "IndexError"]
       ELSE IF unknown
       THEN [st EXCEPT !.err = "ValueError"]
       ELSE [changeNext |-> bound,
             instValNext |-> IF bound THEN ExpScale(nomParams[kk], XD[kk])
                             ELSE st.instValNext,
             roundStringNext |-> IF bound THEN simControlInstTol(xx)
                                 ELSE st.roundStringNext,
             new_schem |-> Append(st.new_schem, Join(line)),
             err |-> "none"]

\* for line in schem: ..., up to the first exception
RECURSIVE ScanSchem(_, _, _)
ScanSchem(lines, i, st) ==
    IF i > Len(lines) \/ st.err # "none" THEN st
    ELSE ScanSchem(lines, i + 1, ScanLine(st, lines[i]))

\* update_schematic(passCellDict, simControlDict): the schematic is read,
\* scanned and the _opt schematic written; an exception ends the run with
\* nothing written.
UpdateSchematicFile ==
    /\ netPc = "solved"
    /\ \E file \in SchematicFiles :
        LET st == ScanSchem(file, 1, ScanStart)
        IN /\ schem' = file
           /\ new_schem' = IF st.err = "none" THEN st.new_schem ELSE <<>>
           /\ netPc' = IF st.err = "none" THEN "rewritten" ELSE st.err
    /\ UNCHANGED <<simControlOPtInstNames, netlist, netlistRead, netFile,
                   OptLine, UB, LB, nomParams, optParams, XD, iterationCount>>
    /\ UNCHANGED <<quantVars, runVars>>

\* The state after main has read and tokenized the netlist file of a
\* schematic with the components R1, R11 and C1.
InitSchem ==
    /\ netPc = "read"
    /\ simControlOPtInstNames \in DistinctSeqs(NamePool, MaxNames)
    /\ netlist = <<LineR1, LineR11, LineC1>>
    /\ netlistRead = netlist
    /\ netFile = Serialize(netlist)
    /\ OptLine = <<>>
    /\ UB = <<>>
    /\ LB = <<>>
    /\ nomParams = <<>>
    /\ optParams = <<>>
    /\ XD = <<>>
    /\ iterationCount = 0
    /\ QuantIdle
    /\ RunIdle
    /\ SchemIdle

NextSchem == NextNet \/ UpdateSchematicFile

SpecSchem == InitSchem /\ [][NextSchem]_vars

\* update_schematic has been called.
SchemCalled == schem # <<>>

\* Record i of the schematic read is an InstName record naming requested
\* instance kk (1-based).
NamesTunable(i, kk) ==
    /\ i \in 1..Len(schem)
    /\ Split(schem[i])[2] = TokInstName
    /\ Split(schem[i])[3] = simControlOPtInstNames[kk]

\* What the rewriter is to emit for record i: the record with its value field
\* quantized if it follows an InstName record naming a tunable instance, the
\* record as it is otherwise.
ExpectedRecord(i) ==
    LET numOptd == Len(simControlOPtInstNames)
        ks == {kk \in 1..numOptd : NamesTunable(i - 1, kk)}
        kk == SetMin(ks)
    IN IF ks = {} THEN Split(schem[i])
       ELSE [Split(schem[i]) EXCEPT ![3] =
                Format3e(Quantize(ExpScale(nomParams[kk], XD[kk]),
                                  simControlInstTol(kk - 1)))]

\* C14 (as stated): the rewriter emits every record of the schematic, in
\* order; the record that follows an InstName record naming a tunable
\* instance has its value field replaced by round63 of that instance's value
\* with that instance's series; every other record, those of instances not in
\* the tunable set included, keeps its tokens.
C14_RewritesExactlyFollowingRecord ==
    SchemCalled =>
        /\ netPc = "rewritten"
        /\ Len(new_schem) = Len(schem)
        /\ \A i \in 1..Len(schem) : Split(new_schem[i]) = ExpectedRecord(i)

\* Every requested name is the designator of the netlist line bound to it.
ExactBinding ==
    \A kk \in 1..Len(simControlOPtInstNames) :
        netlist[OptLine[kk] + 1][1] = simControlOPtInstNames[kk]

\* What holds instead: the same, for runs whose bindings are exact.
C14_RewritesUnderExactBinding ==
    (SchemCalled /\ ExactBinding) =>
        /\ netPc = "rewritten"
        /\ Len(new_schem) = Len(schem)
        /\ \A i \in 1..Len(schem) : Split(new_schem[i]) = ExpectedRecord(i)

====
